---------------------------- MODULE Spec2Model ----------------------------
(***************************************************************************)
(* Pear: the combinator library (lib/src/combinators.rs) and the pattern / *)
(* switch parser of the code generator (codegen/src/parser.rs).            *)
(*                                                                         *)
(* Combinators run over an input of tokens with a cursor `pos` (the number *)
(* of tokens consumed).  The item parser `p` is a caller-supplied closure: *)
(* each call of it is an input of the model, drawn as an outcome           *)
(* [ok, adv]: whether the call returned Ok or Err and how many tokens it   *)
(* consumed before returning.  A call that fails may have consumed tokens, *)
(* a call that succeeds may have consumed none, unless the run is one with *)
(* an item parser that makes progress (`progress`).                        *)
(*                                                                         *)
(* Spec runs one combinator call, SpecProgress one with such an item       *)
(* parser and to its return, SpecParser one Switch::parse and SpecCall one *)
(* CallPattern::parse.                                                     *)
(***************************************************************************)
EXTENDS Integers, Sequences, FiniteSets, TLC

\* ------------------------------------------------------------------ bounds
MaxLen == 5        \* longest input, in tokens
MaxAdv == 2        \* most tokens one call of the item parser consumes
MaxCalls == 6      \* most calls of the item parser in one run
MaxCases == 3      \* most cases in a switch body
MaxAlts == 3       \* most alternatives in one Calls pattern
MaxToks == 4       \* longest token stream given to CallPattern::parse

\* ------------------------------------------------- call-site arguments
StartTok == "["    \* `start` of delimited_collect
EndTok == "]"      \* `end` of delimited_collect
SepTok == ","      \* `seperator`
PrefixTok == "#"   \* `prefix` of prefixed_series
SkipTok == " "     \* the token surrounded's predicate `f` matches

Combinators ==
    {"last_of_many", "surrounded", "collect", "collect_some", "try_collect",
     "delimited_collect", "series", "trailing_series", "prefixed_series"}

\* The tokens a run's input is drawn from: the tokens the combinator compares
\* the stream against, and one token "a" that is none of them.  (A combinator
\* reads the stream only through eat and eof; p's outcomes are drawn freely.)
Tokens(c) ==
    {"a"} \cup
    CASE c = "delimited_collect" -> {StartTok, SepTok, EndTok}
      [] c \in {"series", "trailing_series"} -> {SepTok}
      [] c = "prefixed_series" -> {PrefixTok, SepTok}
      [] c = "surrounded" -> {SkipTok}
      [] OTHER -> {}

VARIABLES
    input,        \* the token stream, fixed for the run
    comb,         \* the combinator that was called
    seperator,    \* delimited_collect's Option<T>: <<>> is None, <<t>> is Some(t)
    pos,          \* the cursor: number of tokens consumed
    collection,   \* the C being built (a Vec: add is push)
    have_some,    \* trailing_series's flag
    pc,           \* "entry" before the loop, "loop" inside it
    result,       \* "Pending" while running, then "Ok" or "Err"
    retval,       \* <<v>> once Ok(v) was returned
    error,        \* <<e>> once Err(e) was returned
    trace,        \* every call of p, eat and rewind_to so far, in order
    progress,     \* whether every successful call of p consumes a token
    \* ---- codegen/src/parser.rs: one run of Switch::parse
    stage,        \* "Start", "CasesAccumulating", "Validated" or "Rejected"
    more,         \* whether the stream is non-empty at the head of the case loop
    cases,        \* the Cases parsed so far (Switch.cases once Validated)
    attempt,      \* <<[k, src, ok]>>: the last run of Case::parse, on the k-th case
    diag,         \* <<d>> once Err(d) was returned
    \* ---- codegen/src/parser.rs: one run of CallPattern::parse
    stream,       \* the tokens CallPattern::parse is given
    cursor,       \* the real stream's cursor: number of tokens consumed
    name_at,      \* try_parse(..).ok(): <<>> is None, <<[ident, at]>> is Some
    call_pattern, \* <<r>> once CallPattern::parse returned
    step          \* "idle", or "start", "name_at", "done"

cvars == <<input, comb, seperator, pos, collection, have_some, pc, result,
           retval, error, trace, progress>>

pvars == <<stage, more, cases, attempt, diag>>

kvars == <<stream, cursor, name_at, call_pattern, step>>

vars == <<cvars, pvars, kvars>>

Min(a, b) == IF a < b THEN a ELSE b

Inputs(c) == UNION {[1..n -> Tokens(c)] : n \in 0..MaxLen}

\* ------------------------------------------------------ the local state
\* The combinator's frame as one record, so that a loop body is a function
\* from frame to frame.
Cur ==
    [pos |-> pos, collection |-> collection, have_some |-> have_some,
     pc |-> pc, result |-> result, retval |-> retval, error |-> error,
     trace |-> trace]

Fresh(at) ==
    [pos |-> at, collection |-> <<>>, have_some |-> FALSE, pc |-> "entry",
     result |-> "Pending", retval |-> <<>>, error |-> <<>>, trace |-> <<>>]

Apply(s) ==
    /\ pos' = s.pos
    /\ collection' = s.collection
    /\ have_some' = s.have_some
    /\ pc' = s.pc
    /\ result' = s.result
    /\ retval' = s.retval
    /\ error' = s.error
    /\ trace' = s.trace

Ev(op, at, ok, adv, tok) ==
    [op |-> op, at |-> at, ok |-> ok, adv |-> adv, tok |-> tok]

\* ------------------------------------------------------------ primitives
\* One call p(input) with outcome o: the cursor moves past what the call
\* consumed; Ok carries the item, Err the error.
POutcomes(s) ==
    {o \in {[ok |-> b, adv |-> n] :
               b \in BOOLEAN, n \in 0..Min(MaxAdv, Len(input) - s.pos)} :
        (progress /\ o.ok) => o.adv >= 1}

p(s, o) ==
    [ok |-> o.ok,
     val |-> [at |-> s.pos, len |-> o.adv],
     err |-> [by |-> "p", at |-> s.pos + o.adv, expected |-> ""],
     s |-> [s EXCEPT !.pos = s.pos + o.adv,
                     !.trace = Append(@, Ev("p", s.pos, o.ok, o.adv, ""))]]

\* eat(input, tok): succeeds and consumes iff the next token is tok.
eat(s, tok) ==
    LET hit == s.pos < Len(input) /\ input[s.pos + 1] = tok IN
    [ok |-> hit,
     err |-> [by |-> "eat", at |-> s.pos, expected |-> tok],
     s |-> [s EXCEPT !.pos = IF hit THEN s.pos + 1 ELSE s.pos,
                     !.trace = Append(@, Ev("eat", s.pos, hit,
                                            IF hit THEN 1 ELSE 0, tok))]]

\* eof(input): Ok iff no token remains.
eof(s) == s.pos = Len(input)

\* input.mark(..): the checkpoint is the position.
mark(s) == s.pos

\* input.rewind_to(&start)
rewind_to(s, start) ==
    [s EXCEPT !.pos = start,
              !.trace = Append(@, Ev("rewind", s.pos, TRUE, 0, ""))]

\* skip_while(input, f): consumes tokens while f matches the next one; it
\* does not fail.
f(tok) == tok = SkipTok

RECURSIVE SkipEnd(_)
SkipEnd(at) ==
    IF at < Len(input) /\ f(input[at + 1]) THEN SkipEnd(at + 1) ELSE at

skip_while(s) ==
    [s EXCEPT !.pos = SkipEnd(s.pos),
              !.trace = Append(@, Ev("skip", s.pos, TRUE,
                                     SkipEnd(s.pos) - s.pos, SkipTok))]

\* Collection for Vec<T>
new == <<>>

add(s, item) == [s EXCEPT !.collection = Append(@, item)]

Ok(s, v) == [s EXCEPT !.result = "Ok", !.retval = <<v>>]

Err(s, e) == [s EXCEPT !.result = "Err", !.error = <<e>>]

\* ----------------------------------------------------------- combinators
\* Each operator is one pass through the combinator's loop body (for the
\* two combinators that eat a token first, the pass at pc = "entry" is that
\* first statement).

\* last_of_many as its doc comment reads: a failing p ends the loop and the
\* last successful output is returned.
last_of_many_until_fail(s, o) ==
    LET r == p(s, o) IN
    IF ~r.ok /\ s.retval # <<>> THEN [r.s EXCEPT !.result = "Ok"]
    ELSE IF ~r.ok THEN Err(r.s, r.err)
    ELSE IF eof(r.s) THEN Ok(r.s, r.val)
    ELSE [r.s EXCEPT !.retval = <<r.val>>]

last_of_many(s, o) ==
    LET r == p(s, o) IN
    IF ~r.ok THEN Err(r.s, r.err)
    ELSE IF eof(r.s) THEN Ok(r.s, r.val)
    ELSE r.s

surrounded(s, o) ==
    LET r == p(skip_while(s), o) IN
    IF ~r.ok THEN Err(r.s, r.err)
    ELSE Ok(skip_while(r.s), r.val)

collect(s, o) ==
    IF eof(s) THEN Ok(s, s.collection)
    ELSE LET r == p(s, o) IN
         IF ~r.ok THEN Err(r.s, r.err) ELSE add(r.s, r.val)

\* collect_some with collect's loop: end-of-stream is tested before p is called.
collect_some_eof_first(s, o) ==
    IF eof(s) THEN Ok(s, s.collection)
    ELSE LET r == p(s, o) IN
         IF ~r.ok THEN Err(r.s, r.err) ELSE add(r.s, r.val)

collect_some(s, o) ==
    LET r == p(s, o) IN
    IF ~r.ok THEN Err(r.s, r.err)
    ELSE LET s1 == add(r.s, r.val) IN
         IF eof(s1) THEN Ok(s1, s1.collection) ELSE s1

\* try_collect without the match on Err: the failure is propagated.
try_collect_propagate(s, o) ==
    IF eof(s) THEN Ok(s, s.collection)
    ELSE LET r == p(s, o) IN
         IF r.ok THEN add(r.s, r.val) ELSE Err(r.s, r.err)

\* try_collect without the rewind_to: the cursor stays where p failed.
try_collect_no_rewind(s, o) ==
    IF eof(s) THEN Ok(s, s.collection)
    ELSE LET r == p(s, o) IN
         IF r.ok THEN add(r.s, r.val) ELSE Ok(r.s, r.s.collection)

\* try_collect that goes round again after a failed call instead of leaving
\* the loop.
try_collect_continue(s, o) ==
    IF eof(s) THEN Ok(s, s.collection)
    ELSE LET start == mark(s)
             r == p(s, o)
         IN  IF r.ok THEN add(r.s, r.val) ELSE rewind_to(r.s, start)

try_collect(s, o) ==
    IF eof(s) THEN Ok(s, s.collection)
    ELSE LET start == mark(s)
             r == p(s, o)
         IN  IF r.ok THEN add(r.s, r.val)
             ELSE LET s1 == rewind_to(r.s, start) IN Ok(s1, s1.collection)

\* delimited_collect that stops at a missing separator without requiring `end`.
delimited_collect_no_end(s, o) ==
    IF s.pc = "entry"
    THEN LET e == eat(s, StartTok) IN
         IF ~e.ok THEN Err(e.s, e.err) ELSE [e.s EXCEPT !.pc = "loop"]
    ELSE LET e == eat(s, EndTok) IN
         IF e.ok THEN Ok(e.s, e.s.collection)
         ELSE LET r == p(e.s, o) IN
              IF ~r.ok THEN Err(r.s, r.err)
              ELSE LET s1 == add(r.s, r.val) IN
                   IF seperator = <<>> THEN s1
                   ELSE LET e1 == eat(s1, seperator[1]) IN
                        IF e1.ok THEN e1.s ELSE Ok(e1.s, e1.s.collection)

\* delimited_collect that never looks for the separator.
delimited_collect_ignore_sep(s, o) ==
    IF s.pc = "entry"
    THEN LET e == eat(s, StartTok) IN
         IF ~e.ok THEN Err(e.s, e.err) ELSE [e.s EXCEPT !.pc = "loop"]
    ELSE LET e == eat(s, EndTok) IN
         IF e.ok THEN Ok(e.s, e.s.collection)
         ELSE LET r == p(e.s, o) IN
              IF ~r.ok THEN Err(r.s, r.err) ELSE add(r.s, r.val)

\* series that takes a failing item after the first for the end of the list.
series_swallow(s, o) ==
    LET r == p(s, o) IN
    IF ~r.ok
    THEN IF s.collection # new THEN Ok(r.s, r.s.collection) ELSE Err(r.s, r.err)
    ELSE LET e == eat(add(r.s, r.val), SepTok) IN
         IF ~e.ok THEN Ok(e.s, e.s.collection) ELSE [e.s EXCEPT !.pc = "loop"]

delimited_collect(s, o) ==
    IF s.pc = "entry"
    THEN LET e == eat(s, StartTok) IN
         IF ~e.ok THEN Err(e.s, e.err) ELSE [e.s EXCEPT !.pc = "loop"]
    ELSE LET e == eat(s, EndTok) IN
         IF e.ok THEN Ok(e.s, e.s.collection)
         ELSE LET r == p(e.s, o) IN
              IF ~r.ok THEN Err(r.s, r.err)
              ELSE LET s1 == add(r.s, r.val) IN
                   IF seperator = <<>> THEN s1
                   ELSE LET e1 == eat(s1, seperator[1]) IN
                        IF e1.ok THEN e1.s
                        ELSE LET e2 == eat(e1.s, EndTok) IN
                             IF ~e2.ok THEN Err(e2.s, e2.err)
                             ELSE Ok(e2.s, e2.s.collection)

series(s, o) ==
    LET r == p(s, o) IN
    IF ~r.ok THEN Err(r.s, r.err)
    ELSE LET e == eat(add(r.s, r.val), SepTok) IN
         IF ~e.ok THEN Ok(e.s, e.s.collection) ELSE [e.s EXCEPT !.pc = "loop"]

\* trailing_series that never sets have_some: a failing item is always an error.
trailing_series_no_flag(s, o) ==
    LET r == p(s, o) IN
    IF ~r.ok
    THEN IF s.have_some THEN Ok(r.s, r.s.collection) ELSE Err(r.s, r.err)
    ELSE LET e == eat(add(r.s, r.val), SepTok) IN
         IF ~e.ok THEN Ok(e.s, e.s.collection) ELSE [e.s EXCEPT !.pc = "loop"]

trailing_series(s, o) ==
    LET r == p(s, o) IN
    IF ~r.ok
    THEN IF s.have_some THEN Ok(r.s, r.s.collection) ELSE Err(r.s, r.err)
    ELSE LET e == eat(add(r.s, r.val), SepTok) IN
         IF ~e.ok THEN Ok(e.s, e.s.collection)
         ELSE [e.s EXCEPT !.have_some = TRUE, !.pc = "loop"]

\* prefixed_series that delegates to trailing_series instead of series.
prefixed_series_trailing(s, o) ==
    IF s.pc = "entry"
    THEN LET e == eat(s, PrefixTok) IN
         IF ~e.ok THEN Ok(e.s, new) ELSE [e.s EXCEPT !.pc = "loop"]
    ELSE trailing_series(s, o)

prefixed_series(s, o) ==
    IF s.pc = "entry"
    THEN LET e == eat(s, PrefixTok) IN
         IF ~e.ok THEN Ok(e.s, new) ELSE [e.s EXCEPT !.pc = "loop"]
    ELSE series(s, o)

\* ---------------------------------------------------------------- actions
PCalls(tr) == SelectSeq(tr, LAMBDA e : e.op = "p")

Running == result = "Pending" /\ Len(PCalls(trace)) < MaxCalls

Frame == UNCHANGED <<input, comb, seperator, progress, pvars, kvars>>

LastOfMany ==
    /\ comb = "last_of_many" /\ Running
    /\ \E o \in POutcomes(Cur) : Apply(last_of_many(Cur, o))
    /\ Frame

Surrounded ==
    /\ comb = "surrounded" /\ Running
    /\ \E o \in POutcomes(skip_while(Cur)) : Apply(surrounded(Cur, o))
    /\ Frame

Collect ==
    /\ comb = "collect" /\ Running
    /\ \E o \in POutcomes(Cur) : Apply(collect(Cur, o))
    /\ Frame

CollectSome ==
    /\ comb = "collect_some" /\ Running
    /\ \E o \in POutcomes(Cur) : Apply(collect_some(Cur, o))
    /\ Frame

TryCollect ==
    /\ comb = "try_collect" /\ Running
    /\ \E o \in POutcomes(Cur) : Apply(try_collect(Cur, o))
    /\ Frame

DelimitedCollect ==
    /\ comb = "delimited_collect" /\ Running
    /\ \E o \in POutcomes(Cur) : Apply(delimited_collect(Cur, o))
    /\ Frame

Series ==
    /\ comb = "series" /\ Running
    /\ \E o \in POutcomes(Cur) : Apply(series(Cur, o))
    /\ Frame

TrailingSeries ==
    /\ comb = "trailing_series" /\ Running
    /\ \E o \in POutcomes(Cur) : Apply(trailing_series(Cur, o))
    /\ Frame

PrefixedSeries ==
    /\ comb = "prefixed_series" /\ Running
    /\ \E o \in POutcomes(Cur) : Apply(prefixed_series(Cur, o))
    /\ Frame

\* A run of one combinator on one input.
Init ==
    /\ comb \in Combinators
    /\ input \in Inputs(comb)
    /\ seperator \in IF comb = "delimited_collect" THEN {<<>>, <<SepTok>>}
                     ELSE {<<SepTok>>}
    /\ pos = 0
    /\ collection = new
    /\ have_some = FALSE
    /\ pc = "entry"
    /\ result = "Pending"
    /\ retval = <<>>
    /\ error = <<>>
    /\ trace = <<>>
    /\ progress \in BOOLEAN
    /\ stage = "Start"
    /\ more = FALSE
    /\ cases = <<>>
    /\ attempt = <<>>
    /\ diag = <<>>
    /\ stream = <<>>
    /\ cursor = 0
    /\ name_at = <<>>
    /\ call_pattern = <<>>
    /\ step = "idle"

\* ======================================================================
\* codegen/src/parser.rs
\*
\* The token stream is parsed by syn; how a case reads is an input of the
\* model, drawn when Case::parse is run on it: whether it is `_`, a list of
\* alternatives (each with its optional capture name) or not a pattern at
\* all, and whether `=> expr` follows.  A span is <<case, alternative, part>>.

Idents == {"n", "m"}

\* Option<Ident> of one alternative in the source: <<>> or <<symbol>>
Names == {<<>>} \cup {<<id>> : id \in Idents}

CaseSources ==
    {[kind |-> "Wild", names |-> <<>>, tail |-> tl] : tl \in {"ok", "err"}}
    \cup {[kind |-> "Malformed", names |-> <<>>, tail |-> "ok"]}
    \cup {[kind |-> "Calls", names |-> ns, tail |-> tl] :
            ns \in UNION {[1..n -> Names] : n \in 1..MaxAlts},
            tl \in {"ok", "err"}}

\* struct CallPattern { name, at, expr }, as parsed from alternative i of case k
CallPattern(k, i, nm) ==
    [name |-> IF nm = <<>> THEN <<>>
              ELSE <<[sym |-> nm[1], span |-> <<k, i, "name">>]>>,
     at |-> IF nm = <<>> THEN <<>> ELSE <<"@">>,
     expr |-> [span |-> <<k, i, "expr">>]]

\* enum Pattern { Wild, Calls }
Pattern(k, src) ==
    IF src.kind = "Wild" THEN [kind |-> "Wild", calls |-> <<>>]
    ELSE [kind |-> "Calls",
          calls |-> [i \in 1..Len(src.names) |-> CallPattern(k, i, src.names[i])]]

\* span.error(msg), err.span_note(span, msg), and a syn parse error
SpanError(span, msg) == [span |-> span, msg |-> msg, notes |-> <<>>]

SpanNote(err, span, msg) ==
    [err EXCEPT !.notes = Append(@, [span |-> span, msg |-> msg])]

SynError(k) == SpanError(<<k, 0, "syn">>, "syn")

\* Option<Ident> == Option<Ident>: identifiers compare by symbol, not by span
NameEq(a, b) ==
    IF a = <<>> \/ b = <<>> THEN a = b ELSE a[1].sym = b[1].sym

\* Pattern::validate that checks only the alternatives that have a name.
validate_named_only(pattern) ==
    IF pattern.kind # "Calls" THEN <<>>
    ELSE LET calls == pattern.calls
             first_name == IF calls = <<>> THEN <<>> ELSE calls[1].name
             differ == {i \in 1..Len(calls) :
                          /\ calls[i].name # <<>>
                          /\ ~NameEq(first_name, calls[i].name)}
         IN  IF differ = {} THEN <<>>
             ELSE LET i == CHOOSE j \in differ : \A l \in differ : j <= l
                      err == SpanError(calls[i].name[1].span,
                                 "captured name differs from declaration")
                  IN  <<IF first_name # <<>>
                        THEN SpanNote(err, first_name[1].span, "declared here")
                        ELSE err>>

\* Pattern::validate that drops the result of span_note.
validate_no_note(pattern) ==
    IF pattern.kind # "Calls" THEN <<>>
    ELSE LET calls == pattern.calls
             first_name == IF calls = <<>> THEN <<>> ELSE calls[1].name
             differ == {i \in 1..Len(calls) : ~NameEq(first_name, calls[i].name)}
         IN  IF differ = {} THEN <<>>
             ELSE LET i == CHOOSE j \in differ : \A l \in differ : j <= l
                      call == calls[i]
                  IN  <<IF call.name # <<>>
                        THEN SpanError(call.name[1].span,
                                "captured name differs from declaration")
                        ELSE SpanError(call.expr.span,
                                "expected capture name due to previous declaration")>>

\* Pattern::validate: <<>> is Ok(()), <<d>> is Err(d)
validate(pattern) ==
    IF pattern.kind # "Calls" THEN <<>>
    ELSE LET calls == pattern.calls
             first_name == IF calls = <<>> THEN <<>> ELSE calls[1].name
             differ == {i \in 1..Len(calls) : ~NameEq(first_name, calls[i].name)}
         IN  IF differ = {} THEN <<>>
             ELSE LET i == CHOOSE j \in differ : \A l \in differ : j <= l
                      call == calls[i]
                      err == IF call.name # <<>>
                             THEN SpanError(call.name[1].span,
                                     "captured name differs from declaration")
                             ELSE SpanError(call.expr.span,
                                     "expected capture name due to previous declaration")
                  IN  <<IF first_name # <<>>
                        THEN SpanNote(err, first_name[1].span, "declared here")
                        ELSE err>>

\* Case::parse without the call of pattern.validate().
Case_parse_no_validate(k, src) ==
    IF src.kind = "Malformed" THEN [ok |-> FALSE, err |-> SynError(k)]
    ELSE LET pattern == Pattern(k, src)
         IN  IF src.tail = "err" THEN [ok |-> FALSE, err |-> SynError(k)]
             ELSE [ok |-> TRUE,
                   case |-> [pattern |-> pattern, span |-> <<k, 0, "case">>]]

\* Case::parse that validates the pattern after `=> expr` was parsed.
Case_parse_validate_last(k, src) ==
    IF src.kind = "Malformed" THEN [ok |-> FALSE, err |-> SynError(k)]
    ELSE LET pattern == Pattern(k, src)
             v == validate(pattern)
         IN  IF src.tail = "err" THEN [ok |-> FALSE, err |-> SynError(k)]
             ELSE IF v # <<>> THEN [ok |-> FALSE, err |-> v[1]]
             ELSE [ok |-> TRUE,
                   case |-> [pattern |-> pattern, span |-> <<k, 0, "case">>]]

\* Case::parse on the k-th case
Case_parse(k, src) ==
    IF src.kind = "Malformed" THEN [ok |-> FALSE, err |-> SynError(k)]
    ELSE LET pattern == Pattern(k, src)
             v == validate(pattern)
         IN  IF v # <<>> THEN [ok |-> FALSE, err |-> v[1]]
             ELSE IF src.tail = "err" THEN [ok |-> FALSE, err |-> SynError(k)]
             ELSE [ok |-> TRUE,
                   case |-> [pattern |-> pattern, span |-> <<k, 0, "case">>]]

\* Switch::parse whose wildcard loop runs over every case, the last included.
Switch_checks_take_all(cs, nonempty) ==
    IF nonempty
    THEN <<SpanError(<<Len(cs) + 1, 0, "eof">>, "trailing characters; expected eof")>>
    ELSE IF cs = <<>>
    THEN <<SpanError(<<1, 0, "eof">>, "switch cannot be empty")>>
    ELSE LET wild == {k \in 1..Len(cs) : cs[k].pattern.kind = "Wild"} IN
         IF wild = {} THEN <<>>
         ELSE LET k == CHOOSE j \in wild : \A l \in wild : j <= l IN
              <<SpanError(cs[k].span,
                          "_ matches can only appear as the last case")>>

\* Switch::parse that reports a misplaced wildcard at the case after it.
Switch_checks_cite_next(cs, nonempty) ==
    IF nonempty
    THEN <<SpanError(<<Len(cs) + 1, 0, "eof">>, "trailing characters; expected eof")>>
    ELSE IF cs = <<>>
    THEN <<SpanError(<<1, 0, "eof">>, "switch cannot be empty")>>
    ELSE LET wild == {k \in 1..(Len(cs) - 1) : cs[k].pattern.kind = "Wild"} IN
         IF wild = {} THEN <<>>
         ELSE LET k == CHOOSE j \in wild : \A l \in wild : j <= l IN
              <<SpanError(cs[k + 1].span,
                          "_ matches can only appear as the last case")>>

\* Switch::parse without the test for an empty case list.
Switch_checks_allow_empty(cs, nonempty) ==
    IF nonempty
    THEN <<SpanError(<<Len(cs) + 1, 0, "eof">>, "trailing characters; expected eof")>>
    ELSE LET wild == {k \in 1..(Len(cs) - 1) : cs[k].pattern.kind = "Wild"} IN
         IF wild = {} THEN <<>>
         ELSE LET k == CHOOSE j \in wild : \A l \in wild : j <= l IN
              <<SpanError(cs[k].span,
                          "_ matches can only appear as the last case")>>

\* Switch::parse after parse_terminated returned: trailing tokens, the empty
\* switch, and a `_` before the last case.  <<>> is Ok, <<d>> is Err(d).
Switch_checks(cs, nonempty) ==
    IF nonempty
    THEN <<SpanError(<<Len(cs) + 1, 0, "eof">>, "trailing characters; expected eof")>>
    ELSE IF cs = <<>>
    THEN <<SpanError(<<1, 0, "eof">>, "switch cannot be empty")>>
    ELSE LET wild == {k \in 1..(Len(cs) - 1) : cs[k].pattern.kind = "Wild"} IN
         IF wild = {} THEN <<>>
         ELSE LET k == CHOOSE j \in wild : \A l \in wild : j <= l IN
              <<SpanError(cs[k].span,
                          "_ matches can only appear as the last case")>>

PFrame == UNCHANGED <<cvars, kvars>>

\* The header group: [info; input; marker; output]
ParseHeader ==
    /\ stage = "Start"
    /\ \E header_ok \in BOOLEAN, m \in BOOLEAN :
          IF header_ok
          THEN stage' = "CasesAccumulating" /\ more' = m /\ diag' = diag
          ELSE stage' = "Rejected" /\ more' = more /\ diag' = <<SynError(0)>>
    /\ UNCHANGED <<cases, attempt>>
    /\ PFrame

\* One pass of parse_terminated(Case::syn_parse): a case, then `,` or the end
\* of the stream.
ParseCase ==
    /\ stage = "CasesAccumulating" /\ more /\ Len(cases) < MaxCases
    /\ \E src \in CaseSources, after \in {"comma", "comma_eof", "eof", "junk"} :
          LET k == Len(cases) + 1
              r == Case_parse(k, src)
          IN  /\ attempt' = <<[k |-> k, src |-> src, ok |-> r.ok]>>
              /\ IF ~r.ok
                 THEN stage' = "Rejected" /\ diag' = <<r.err>>
                      /\ UNCHANGED <<cases, more>>
                 ELSE /\ cases' = Append(cases, r.case)
                      /\ IF after = "junk"
                         THEN stage' = "Rejected" /\ diag' = <<SynError(k)>>
                              /\ more' = more
                         ELSE stage' = stage /\ diag' = diag
                              /\ more' = (after = "comma")
    /\ PFrame

\* The checks after the case loop, and the Switch returned.
FinishSwitch ==
    /\ stage = "CasesAccumulating" /\ ~more
    /\ LET v == Switch_checks(cases, more) IN
          IF v # <<>> THEN stage' = "Rejected" /\ diag' = v
          ELSE stage' = "Validated" /\ diag' = diag
    /\ UNCHANGED <<more, cases, attempt>>
    /\ PFrame

\* A run of Switch::parse: no combinator runs meanwhile.
ParserInit ==
    /\ stage = "Start"
    /\ more = FALSE
    /\ cases = <<>>
    /\ attempt = <<>>
    /\ diag = <<>>
    /\ stream = <<>>
    /\ cursor = 0
    /\ name_at = <<>>
    /\ call_pattern = <<>>
    /\ step = "idle"
    /\ comb = "none"
    /\ input = <<>>
    /\ seperator = <<>>
    /\ pos = 0
    /\ collection = new
    /\ have_some = FALSE
    /\ pc = "entry"
    /\ result = "Pending"
    /\ retval = <<>>
    /\ error = <<>>
    /\ trace = <<>>
    /\ progress = FALSE

Next ==
    \/ LastOfMany
    \/ Surrounded
    \/ Collect
    \/ CollectSome
    \/ TryCollect
    \/ DelimitedCollect
    \/ Series
    \/ TrailingSeries
    \/ PrefixedSeries

Spec == Init /\ [][Next]_vars

\* A call with an item parser that consumes at least one token whenever it
\* succeeds.
InitProgress ==
    /\ comb \in Combinators
    /\ input \in Inputs(comb)
    /\ seperator \in IF comb = "delimited_collect" THEN {<<>>, <<SepTok>>}
                     ELSE {<<SepTok>>}
    /\ pos = 0
    /\ collection = new
    /\ have_some = FALSE
    /\ pc = "entry"
    /\ result = "Pending"
    /\ retval = <<>>
    /\ error = <<>>
    /\ trace = <<>>
    /\ progress = TRUE
    /\ stage = "Start"
    /\ more = FALSE
    /\ cases = <<>>
    /\ attempt = <<>>
    /\ diag = <<>>
    /\ stream = <<>>
    /\ cursor = 0
    /\ name_at = <<>>
    /\ call_pattern = <<>>
    /\ step = "idle"

\* The combinator is a sequential call: while it has not returned, its next
\* pass is taken.
SpecProgress == InitProgress /\ [][Next]_vars /\ WF_vars(Next)

ParserNext ==
    \/ ParseHeader
    \/ ParseCase
    \/ FinishSwitch

SpecParser == ParserInit /\ [][ParserNext]_vars

\* ----------------------------------------------- CallPattern::parse
\* The tokens of a call pattern: an identifier, `@`, a parenthesised
\* group, and a token that is none of them.
IdentTok == "n"
AtTok == "@"
ParenTok == "()"
OtherTok == "|"

CallTokens == {IdentTok, AtTok, ParenTok, OtherTok}

Streams == UNION {[1..n -> CallTokens] : n \in 0..MaxToks}

\* input.parse::<T>() for a one-token T, with the cursor at c: the token is
\* consumed iff it is the one asked for.
parse_token(c, tok) ==
    IF c < Len(stream) /\ stream[c + 1] = tok
    THEN [ok |-> TRUE, cur |-> c + 1, val |-> [tok |-> tok, at |-> c]]
    ELSE [ok |-> FALSE, cur |-> c, val |-> [tok |-> "", at |-> c]]

\* The closure given to try_parse: an identifier, then `@`.
ident_at(c) ==
    LET ident == parse_token(c, IdentTok) IN
    IF ~ident.ok THEN [ok |-> FALSE, cur |-> ident.cur, val |-> <<>>]
    ELSE LET at == parse_token(ident.cur, AtTok) IN
         IF ~at.ok THEN [ok |-> FALSE, cur |-> at.cur, val |-> <<>>]
         ELSE [ok |-> TRUE, cur |-> at.cur,
               val |-> <<[ident |-> ident.val, at |-> at.val]>>]

\* try_parse that runs the closure on the stream itself.
try_parse_no_fork(c) == ident_at(c)

\* try_parse: the closure runs on a fork first; the stream itself is parsed
\* only when the fork succeeded, and is left alone when it failed.
try_parse(c) ==
    LET forked == ident_at(c) IN
    IF ~forked.ok THEN [ok |-> FALSE, cur |-> c, val |-> <<>>]
    ELSE ident_at(c)

\* parse_expr_call: a path, then a parenthesised group of arguments.
parse_expr_call(c) ==
    LET path == parse_token(c, IdentTok) IN
    IF ~path.ok THEN [ok |-> FALSE, cur |-> path.cur, val |-> <<>>]
    ELSE LET args == parse_token(path.cur, ParenTok) IN
         IF ~args.ok THEN [ok |-> FALSE, cur |-> args.cur, val |-> <<>>]
         ELSE [ok |-> TRUE, cur |-> args.cur,
               val |-> <<[from |-> c, to |-> args.cur]>>]

KFrame == UNCHANGED <<cvars, pvars, stream>>

\* let name_at = input.try_parse(..).ok();
ParseNameAt ==
    /\ step = "start"
    /\ LET r == try_parse(cursor) IN
          /\ name_at' = r.val
          /\ cursor' = r.cur
    /\ step' = "name_at"
    /\ call_pattern' = call_pattern
    /\ KFrame

\* Ok(CallPattern { name, at, expr: parse_expr_call(input)? })
ParseExprCall ==
    /\ step = "name_at"
    /\ LET r == parse_expr_call(cursor) IN
          /\ cursor' = r.cur
          /\ call_pattern' =
                <<[ok |-> r.ok,
                   from |-> cursor,
                   name |-> IF name_at = <<>> THEN <<>>
                            ELSE <<name_at[1].ident>>,
                   at |-> IF name_at = <<>> THEN <<>> ELSE <<name_at[1].at>>,
                   expr |-> r.val]>>
    /\ step' = "done"
    /\ name_at' = name_at
    /\ KFrame

\* A run of CallPattern::parse on a stream of up to MaxToks tokens.
CallInit ==
    /\ stream \in Streams
    /\ cursor = 0
    /\ name_at = <<>>
    /\ call_pattern = <<>>
    /\ step = "start"
    /\ stage = "Start"
    /\ more = FALSE
    /\ cases = <<>>
    /\ attempt = <<>>
    /\ diag = <<>>
    /\ comb = "none"
    /\ input = <<>>
    /\ seperator = <<>>
    /\ pos = 0
    /\ collection = new
    /\ have_some = FALSE
    /\ pc = "entry"
    /\ result = "Pending"
    /\ retval = <<>>
    /\ error = <<>>
    /\ trace = <<>>
    /\ progress = FALSE

CallNext ==
    \/ ParseNameAt
    \/ ParseExprCall

SpecCall == CallInit /\ [][CallNext]_vars


\* ============================================================== properties
\* What the trace says happened.
Calls == PCalls(trace)

Last(sq) == sq[Len(sq)]

Front(sq) == SubSeq(sq, 1, Len(sq) - 1)

CallItem(e) == [at |-> e.at, len |-> e.adv]

CallErr(e) == [by |-> "p", at |-> e.at + e.adv, expected |-> ""]

Items(cs) == [i \in 1..Len(cs) |-> CallItem(cs[i])]

AllOk(cs) == \A i \in 1..Len(cs) : cs[i].ok

\* The calls were made one after the other with nothing consumed in between,
\* the first one at position `from`.
Consecutive(cs, from) ==
    \A i \in 1..Len(cs) :
        cs[i].at = IF i = 1 THEN from ELSE cs[i - 1].at + cs[i - 1].adv

Rewound == \E i \in 1..Len(trace) : trace[i].op = "rewind"

\* C1: try_collect never returns an error; what it returns is the outputs, in
\* order, of the consecutive successful calls of p made from the starting
\* position up to the first failing call or end-of-stream, and it runs on
\* until one of the two stops it.
C1_TryCollectMaximalPrefix ==
    comb = "try_collect" =>
        /\ result # "Err"
        /\ Consecutive(Calls, 0)
        /\ result = "Pending" => AllOk(Calls) /\ collection = Items(Calls)
        /\ result = "Ok" =>
              LET good == IF Calls # <<>> /\ ~Last(Calls).ok
                          THEN Front(Calls) ELSE Calls
              IN  /\ AllOk(good)
                  /\ retval = <<Items(good)>>
                  /\ (Calls # <<>> /\ ~Last(Calls).ok) \/ pos = Len(input)

C1_Witness ==
    /\ comb = "try_collect" /\ result = "Ok"
    /\ Len(retval[1]) = 2
    /\ ~Last(Calls).ok
    /\ pos < Len(input)

\* C2: when try_collect stops on a failed call of p, the cursor is where it
\* was right before that call: after the last successful call (the start if
\* there was none), whatever the failed call consumed.
C2_TryCollectRewindsFailedCall ==
    (comb = "try_collect" /\ result = "Ok" /\ Calls # <<>> /\ ~Last(Calls).ok)
        => /\ pos = Last(Calls).at
           /\ pos = IF Len(Calls) = 1 THEN 0
                    ELSE Calls[Len(Calls) - 1].at + Calls[Len(Calls) - 1].adv

C2_Witness ==
    /\ comb = "try_collect" /\ result = "Ok"
    /\ Len(Calls) = 3 /\ ~Last(Calls).ok
    /\ Last(Calls).adv = 2
    /\ pos = 2

\* C7: last_of_many returns Ok exactly when every call of p succeeded and
\* end-of-stream was reached after the last one, the value being that last
\* call's output; a failing call makes it return that call's error; it goes
\* on while end-of-stream is not reached, and the cursor never moves back.
C7_LastOfMany ==
    comb = "last_of_many" =>
        /\ Consecutive(Calls, 0)
        /\ ~Rewound
        /\ Calls # <<>> => pos = Last(Calls).at + Last(Calls).adv
        /\ AllOk(Front(Calls))
        /\ result = "Pending" => AllOk(Calls) /\ (Calls # <<>> => pos < Len(input))
        /\ result = "Ok" <=>
              Calls # <<>> /\ Last(Calls).ok /\ pos = Len(input)
        /\ result = "Ok" => retval = <<CallItem(Last(Calls))>>
        /\ result = "Err" <=> Calls # <<>> /\ ~Last(Calls).ok
        /\ result = "Err" => error = <<CallErr(Last(Calls))>>

C7_Witness ==
    /\ comb = "last_of_many" /\ result = "Ok"
    /\ Len(Calls) = 3
    /\ retval = <<CallItem(Calls[3])>>

\* C8 (the doc comment of last_of_many): when p fails after one or more
\* successful calls, the result is the output of the last successful call.
C8_LastOfManyReturnsLastSuccess ==
    (comb = "last_of_many" /\ Len(Calls) >= 2 /\ ~Last(Calls).ok)
        => /\ result = "Ok"
           /\ retval = <<CallItem(Calls[Len(Calls) - 1])>>

\* The run so far is item (SEP item)* SEP and then a failing call of item.
TrailingSeparator ==
    /\ Len(trace) >= 3 /\ Len(trace) % 2 = 1
    /\ \A i \in 1..Len(trace) :
          IF i % 2 = 1
          THEN trace[i].op = "p" /\ (trace[i].ok <=> i < Len(trace))
          ELSE trace[i].op = "eat" /\ trace[i].tok = SepTok /\ trace[i].ok

\* C3: after item (SEP item)* SEP with the next item call failing, series
\* returns that call's error and trailing_series returns the items before the
\* trailing separator, in order; in both, a failure of the very first item
\* call is the combinator's error.
C3_SeriesVsTrailingSeries ==
    /\ (comb = "series" /\ TrailingSeparator)
          => result = "Err" /\ error = <<CallErr(Last(Calls))>>
    /\ (comb = "trailing_series" /\ TrailingSeparator)
          => result = "Ok" /\ retval = <<Items(Front(Calls))>>
    /\ (comb \in {"series", "trailing_series"} /\ Calls # <<>> /\ ~Calls[1].ok)
          => result = "Err" /\ error = <<CallErr(Calls[1])>>

C3_Witness ==
    /\ comb = "trailing_series"
    /\ input = <<"a", ",", "a", ",">>
    /\ TrailingSeparator
    /\ result = "Ok" /\ Len(retval[1]) = 2 /\ retval[1][1].at = 0
    /\ retval[1][2].at = 2

\* C4 as stated: on empty input collect returns an empty collection and
\* collect_some fails; a collection returned by collect_some is never empty.
C4_CollectSomeFailsOnEmptyInput ==
    /\ (comb = "collect" /\ input = <<>> /\ result # "Pending")
          => result = "Ok" /\ retval = <<new>>
    /\ (comb = "collect_some" /\ input = <<>> /\ result # "Pending")
          => result = "Err"
    /\ (comb = "collect_some" /\ result = "Ok") => retval[1] # <<>>

\* C4 amended: on empty input collect returns an empty collection without
\* calling p, and collect_some calls p once and returns that call's error if
\* it fails, a one-item collection if it succeeds; a collection returned by
\* collect_some is never empty.
C4_CollectVsCollectSome ==
    /\ (comb = "collect" /\ input = <<>> /\ result # "Pending")
          => result = "Ok" /\ retval = <<new>> /\ Calls = <<>>
    /\ (comb = "collect_some" /\ input = <<>> /\ result # "Pending")
          => /\ Len(Calls) = 1
             /\ result = "Err" <=> ~Calls[1].ok
             /\ result = "Err" => error = <<CallErr(Calls[1])>>
             /\ result = "Ok" => retval = <<Items(Calls)>>
    /\ (comb = "collect_some" /\ result = "Ok")
          => retval[1] # <<>> /\ retval = <<Items(Calls)>>

C4_Witness ==
    /\ comb = "collect_some" /\ input = <<>>
    /\ result = "Err" /\ Len(Calls) = 1

\* The last thing the run did was to consume END.
EndEaten ==
    /\ Len(trace) >= 2
    /\ Last(trace).op = "eat" /\ Last(trace).tok = EndTok /\ Last(trace).ok

\* C5: delimited_collect returns Ok exactly when it ends by consuming END;
\* the value is then the items in call order (none for START END) and the
\* cursor is right after END.  A missing START, a failing item call and a
\* missing END are errors.
C5_DelimitedCollect ==
    (comb = "delimited_collect" /\ trace # <<>>) =>
        /\ trace[1].op = "eat" /\ trace[1].tok = StartTok /\ trace[1].at = 0
        /\ trace[1].ok <=> (input # <<>> /\ input[1] = StartTok)
        /\ ~trace[1].ok =>
              /\ result = "Err"
              /\ error = <<[by |-> "eat", at |-> 0, expected |-> StartTok]>>
        /\ ~AllOk(Calls) => result = "Err" /\ error = <<CallErr(Last(Calls))>>
        /\ result = "Ok" <=> EndEaten
        /\ result = "Ok" =>
              /\ retval = <<Items(Calls)>>
              /\ pos = Last(trace).at + 1
              /\ input[pos] = EndTok
        /\ trace = <<Ev("eat", 0, TRUE, 1, StartTok), Ev("eat", 1, TRUE, 1, EndTok)>>
              => retval = <<new>>

C5_Witness ==
    /\ comb = "delimited_collect" /\ seperator = <<SepTok>>
    /\ input = <<"[", "a", ",", "a", "]">>
    /\ result = "Ok" /\ pos = 5
    /\ retval = <<Items(Calls)>> /\ Len(Calls) = 2
    /\ Calls[1].at = 1 /\ Calls[2].at = 3

\* series run to its end, or as far as the outcomes cs of the item calls go.
Outcome(e) == [ok |-> e.ok, adv |-> e.adv]

RECURSIVE SeriesRun(_, _)
SeriesRun(s, cs) ==
    IF cs = <<>> \/ s.result # "Pending" THEN s
    ELSE SeriesRun(series(s, Outcome(Head(cs))), Tail(cs))

\* C6: prefixed_series with no prefix next returns an empty collection, calls
\* the item parser zero times and leaves the cursor alone; with the prefix
\* next it consumes it, and from there its result, error and cursor are those
\* of series run on the rest of the input with the same item outcomes, so a
\* failing first item is an error.
C6_PrefixedSeries ==
    (comb = "prefixed_series" /\ trace # <<>>) =>
        /\ trace[1].op = "eat" /\ trace[1].tok = PrefixTok /\ trace[1].at = 0
        /\ trace[1].ok <=> (input # <<>> /\ input[1] = PrefixTok)
        /\ ~trace[1].ok =>
              /\ result = "Ok" /\ retval = <<new>>
              /\ Calls = <<>> /\ pos = 0
        /\ trace[1].ok =>
              LET r == SeriesRun(Fresh(1), Calls) IN
              /\ result = r.result
              /\ retval = r.retval
              /\ error = r.error
              /\ pos = r.pos
              /\ collection = r.collection
              /\ Tail(trace) = r.trace
        /\ (trace[1].ok /\ Calls # <<>> /\ ~Calls[1].ok)
              => result = "Err" /\ error = <<CallErr(Calls[1])>>

C6_Witness ==
    /\ comb = "prefixed_series"
    /\ input = <<"#", "a", ",", "a">>
    /\ result = "Ok" /\ Len(retval[1]) = 2 /\ pos = 4

\* ------------------------------------------------- the switch parser
\* The capture names of a case as they stand in the source.
SameNames(ns) == \A i \in 1..Len(ns) : ns[i] = ns[1]

FirstDiffer(ns) ==
    CHOOSE i \in 1..Len(ns) :
        ns[i] # ns[1] /\ \A j \in 1..(i - 1) : ns[j] = ns[1]

NameDiag(d) ==
    d.msg \in {"captured name differs from declaration",
               "expected capture name due to previous declaration"}

Mismatched(a) == a.src.kind = "Calls" /\ ~SameNames(a.src.names)

\* C9: validation rejects a Calls pattern exactly when some alternative's
\* capture name differs from the first one's (a name against no name
\* included), and reports the first such alternative; a wildcard and a
\* pattern whose names all agree pass.  So every case that was accepted, and
\* every case of a Switch that was returned, has one capture name or none.
C9_SameNameRule ==
    /\ attempt # <<>> =>
          LET a == attempt[1] IN
          /\ Mismatched(a) =>
                /\ ~a.ok /\ stage = "Rejected"
                /\ NameDiag(diag[1])
                /\ diag[1].span[1] = a.k
                /\ diag[1].span[2] = FirstDiffer(a.src.names)
          /\ ~Mismatched(a) => diag = <<>> \/ ~NameDiag(diag[1])
          /\ (~Mismatched(a) /\ a.src.kind # "Malformed" /\ a.src.tail = "ok")
                => a.ok /\ Len(cases) = a.k
    /\ \A k \in 1..Len(cases) :
          LET calls == cases[k].pattern.calls IN
          \A i \in 1..Len(calls) :
              /\ calls[i].name = <<>> <=> calls[1].name = <<>>
              /\ calls[i].name # <<>> => calls[i].name[1].sym = calls[1].name[1].sym

C9_Witness ==
    /\ stage = "Rejected" /\ Len(cases) = 1 /\ attempt # <<>>
    /\ attempt[1].src.names = << <<"n">>, <<"n">>, <<>> >>
    /\ diag[1].span = <<2, 3, "expr">>

\* C10 as stated: every capture-name failure has its primary span at the
\* offending alternative's name (its call expression when unnamed) and a
\* secondary note pointing back at the first alternative.
C10_NoteAlwaysPresent ==
    (stage = "Rejected" /\ NameDiag(diag[1])) =>
        LET a == attempt[1]
            i == FirstDiffer(a.src.names)
        IN  /\ diag[1].span =
                  <<a.k, i, IF a.src.names[i] # <<>> THEN "name" ELSE "expr">>
            /\ Len(diag[1].notes) = 1
            /\ diag[1].notes[1].span[1] = a.k
            /\ diag[1].notes[1].span[2] = 1

\* C10 amended: the primary span is as stated; the diagnostic carries one
\* secondary note, at the first alternative's name, when the first
\* alternative is named, and no note when the first alternative is unnamed.
C10_DiagnosticSpans ==
    (stage = "Rejected" /\ NameDiag(diag[1])) =>
        LET a == attempt[1]
            i == FirstDiffer(a.src.names)
        IN  /\ Mismatched(a)
            /\ diag[1].span =
                  <<a.k, i, IF a.src.names[i] # <<>> THEN "name" ELSE "expr">>
            /\ diag[1].notes =
                  IF a.src.names[1] # <<>>
                  THEN <<[span |-> <<a.k, 1, "name">>, msg |-> "declared here"]>>
                  ELSE <<>>

C10_Witness ==
    /\ stage = "Rejected" /\ attempt # <<>>
    /\ attempt[1].src.names = << <<"n">>, <<"m">> >>
    /\ diag[1].span = <<attempt[1].k, 2, "name">>
    /\ diag[1].notes = <<[span |-> <<attempt[1].k, 1, "name">>,
                          msg |-> "declared here"]>>

\* The diagnostics of the checks Switch::parse makes after the case loop.
WildDiag(d) == d.msg = "_ matches can only appear as the last case"

EmptyDiag(d) == d.msg = "switch cannot be empty"

\* The wildcard cases that are not the last case.
MisplacedWild(cs) == {k \in 1..(Len(cs) - 1) : cs[k].pattern.kind = "Wild"}

\* Switch::parse got through the case loop and was rejected by a later check.
RejectedAfterLoop == stage = "Rejected" /\ ~more /\ diag[1].msg # "syn"

\* C11: a Switch is returned only if no case but the last is a wildcard; a
\* case list that was parsed to its end is rejected for wildcard placement
\* exactly when a wildcard stands before the last case, so a wildcard in
\* the last position is accepted.
C11_WildcardOnlyLast ==
    /\ stage = "Validated" => MisplacedWild(cases) = {}
    /\ (RejectedAfterLoop /\ cases # <<>>)
          => MisplacedWild(cases) # {} /\ WildDiag(diag[1])
    /\ (stage = "Rejected" /\ WildDiag(diag[1]))
          => RejectedAfterLoop /\ MisplacedWild(cases) # {}

C11_Witness ==
    /\ stage = "Validated" /\ Len(cases) = 3
    /\ cases[3].pattern.kind = "Wild"
    /\ cases[1].pattern.kind = "Calls" /\ cases[2].pattern.kind = "Calls"

\* The first wildcard case that is not the last case.
FirstMisplaced(cs) ==
    CHOOSE j \in MisplacedWild(cs) : \A l \in MisplacedWild(cs) : j <= l

\* C12 (as stated): a wildcard placement error cites the case that comes
\* after the misplaced wildcard, not the wildcard case.
C12_CitesCaseAfterWildcard ==
    (stage = "Rejected" /\ WildDiag(diag[1]))
        => diag[1].span = cases[FirstMisplaced(cases) + 1].span

\* C12 (amended): a wildcard placement error cites the misplaced wildcard
\* case itself, the first one when there are several, and has no note.
C12_CitesWildcardCase ==
    (stage = "Rejected" /\ WildDiag(diag[1]))
        => /\ diag[1].span = cases[FirstMisplaced(cases)].span
           /\ cases[FirstMisplaced(cases)].pattern.kind = "Wild"
           /\ diag[1].notes = <<>>
           /\ Len(diag) = 1

C12_Witness ==
    /\ stage = "Rejected" /\ Len(cases) = 3
    /\ cases[1].pattern.kind = "Calls"
    /\ cases[2].pattern.kind = "Wild"
    /\ cases[3].pattern.kind = "Calls"
    /\ diag[1].span = cases[2].span
    /\ diag[1].span # cases[3].span

\* C13: a Switch is never returned with zero cases: a body without cases
\* is rejected with the empty-switch error, and that error is raised for
\* no other body.
C13_NeverEmpty ==
    /\ stage = "Validated" => Len(cases) >= 1
    /\ (RejectedAfterLoop /\ cases = <<>>) => EmptyDiag(diag[1])
    /\ (stage = "Rejected" /\ EmptyDiag(diag[1]))
          => RejectedAfterLoop /\ cases = <<>> /\ attempt = <<>>

C13_Witness ==
    /\ stage = "Rejected" /\ cases = <<>> /\ ~more /\ EmptyDiag(diag[1])

\* A diagnostic of one of the two structural rules.
Structural(d) == WildDiag(d) \/ EmptyDiag(d)

\* The case passed the capture-name rule.
NamesAgree(c) ==
    \A i \in 1..Len(c.pattern.calls) :
        NameEq(c.pattern.calls[i].name, c.pattern.calls[1].name)

\* C17: the structural rules come after the capture-name rule and after the
\* end of the case list: a case whose capture names differ is rejected with
\* the capture-name error whatever wildcards were accepted before it, and
\* a structural error is reported only when the stream is exhausted and
\* every case was parsed and passed the capture-name rule.
C17_StructuralRulesLast ==
    /\ (attempt # <<>> /\ Mismatched(attempt[1]))
          => stage = "Rejected" /\ NameDiag(diag[1]) /\ ~Structural(diag[1])
    /\ (stage = "Rejected" /\ Structural(diag[1]))
          => /\ ~more
             /\ attempt # <<>> => attempt[1].ok /\ attempt[1].k = Len(cases)
             /\ \A k \in 1..Len(cases) : NamesAgree(cases[k])

C17_Witness ==
    /\ stage = "Rejected" /\ Len(cases) = 2 /\ attempt # <<>>
    /\ cases[1].pattern.kind = "Wild"
    /\ attempt[1].k = 3 /\ Mismatched(attempt[1])
    /\ NameDiag(diag[1])

\* C18 (as stated): no validation error is reported while a part of the
\* case list is still unparsed.
C18_ValidationAfterParsing ==
    (stage = "Rejected" /\ (NameDiag(diag[1]) \/ Structural(diag[1]))) => ~more

\* C18 (amended): the two structural rules are checked after the whole case
\* list was parsed; the capture-name rule is checked inside the parse of
\* each case, before its `=> expr` and before any later case is parsed.
C18_NameRuleInterleaved ==
    /\ (stage = "Rejected" /\ Structural(diag[1]))
          => ~more /\ (attempt # <<>> => attempt[1].ok)
    /\ (stage = "Rejected" /\ NameDiag(diag[1]))
          => /\ more
             /\ ~attempt[1].ok
             /\ Len(cases) = attempt[1].k - 1
    /\ (attempt # <<>> /\ Mismatched(attempt[1]) /\ attempt[1].src.tail = "err")
          => NameDiag(diag[1])
    /\ stage \in {"Start", "CasesAccumulating", "Validated", "Rejected"}
    /\ stage = "Start" => cases = <<>> /\ attempt = <<>>
    /\ stage = "Validated" => ~more /\ diag = <<>>

C18_Witness ==
    /\ stage = "Rejected" /\ more /\ Len(cases) = 1 /\ attempt # <<>>
    /\ attempt[1].k = 2 /\ Mismatched(attempt[1])
    /\ attempt[1].src.tail = "err"
    /\ NameDiag(diag[1])

\* The combinators that pass every failure of the item parser on.
Propagating ==
    {"last_of_many", "surrounded", "collect", "collect_some",
     "delimited_collect", "series", "prefixed_series"}

\* C14 (as stated): in every combinator but try_collect, a call of the item
\* parser that returns an error makes the combinator return an error.
C14_NoSwallowedItemError ==
    (comb \in Propagating \cup {"trailing_series"} /\ ~AllOk(Calls))
        => result = "Err"

\* C14 (amended): a failing call of the item parser is the combinator's
\* error in last_of_many, surrounded, collect, collect_some,
\* delimited_collect, series and prefixed_series; trailing_series returns
\* it for the first item only and takes a failing item after a separator
\* for the end of the list; try_collect returns Ok.
C14_ItemErrorPropagation ==
    ~AllOk(Calls) =>
        /\ Last(Calls).ok = FALSE /\ AllOk(Front(Calls))
        /\ comb \in Propagating
              => result = "Err" /\ error = <<CallErr(Last(Calls))>>
        /\ comb = "trailing_series" =>
              IF Len(Calls) = 1
              THEN result = "Err" /\ error = <<CallErr(Last(Calls))>>
              ELSE result = "Ok" /\ retval = <<Items(Front(Calls))>>
        /\ comb = "try_collect" => result = "Ok"

C14_Witness ==
    /\ comb = "trailing_series" /\ result = "Ok"
    /\ Len(Calls) = 3 /\ ~Last(Calls).ok
    /\ Len(retval[1]) = 2

\* The tokens consumed by the sub-parses that succeeded: items, separators,
\* start, end and prefix tokens, skipped tokens.
RECURSIVE Committed(_)
Committed(tr) ==
    IF tr = <<>> THEN 0
    ELSE Committed(Front(tr))
         + (IF Last(tr).ok /\ Last(tr).op # "rewind" THEN Last(tr).adv ELSE 0)

\* C15: a combinator that returns success has advanced the cursor by exactly
\* the tokens of its successful sub-parses, so nothing a failing call of the
\* item parser consumed stays consumed; a combinator that fails leaves the
\* cursor where the failing sub-parse stopped.
C15_NoPartialCommit ==
    /\ result = "Ok" => pos = Committed(trace)
    /\ result = "Err" => pos = error[1].at

\* Event b is what delimited_collect does right after event a.
DelimitedFollows(a, b) ==
    LET sep == seperator # <<>>
        after == a.at + a.adv
    IN
    /\ b.at = after
    /\ CASE a.op = "eat" /\ a.tok = StartTok ->
              a.ok /\ b.op = "eat" /\ b.tok = EndTok
         [] a.op = "eat" /\ a.tok = EndTok ->
              ~a.ok /\ b.op = "p"
         [] a.op = "p" ->
              /\ a.ok
              /\ b.op = "eat"
              /\ b.tok = IF sep THEN SepTok ELSE EndTok
         [] a.op = "eat" /\ a.tok = SepTok ->
              /\ sep
              /\ b.op = "eat" /\ b.tok = EndTok
         [] OTHER -> FALSE

\* C19: after START the loop is: if END is next, consume it and stop;
\* otherwise parse one item and then, with a separator, consume SEP and go
\* round again or else require END and stop, and without a separator go round
\* again.  So `START item SEP END` is accepted, an item followed by neither
\* SEP nor END is rejected, and without a separator `START item* END` is
\* what is accepted.
C19_DelimitedCollectLoop ==
    comb = "delimited_collect" =>
        /\ trace # <<>> => trace[1].op = "eat" /\ trace[1].tok = StartTok
                           /\ trace[1].at = 0
        /\ \A i \in 2..Len(trace) : DelimitedFollows(trace[i - 1], trace[i])
        /\ result = "Ok" <=>
              /\ trace # <<>>
              /\ Last(trace).op = "eat" /\ Last(trace).tok = EndTok
              /\ Last(trace).ok
        /\ result = "Err" <=>
              /\ trace # <<>>
              /\ ~Last(trace).ok
              /\ \/ Last(trace).op = "p"
                 \/ Len(trace) = 1
                 \/ /\ Len(trace) > 1 /\ Last(trace).tok = EndTok
                    /\ trace[Len(trace) - 1].op = "eat"
                    /\ trace[Len(trace) - 1].tok = SepTok
        /\ (result = "Ok" /\ seperator = <<>>)
              => /\ \A i \in 1..Len(trace) : trace[i].tok # SepTok
                 /\ pos = 2 + Committed(Calls)
                 /\ Consecutive(Calls, 1)

\* `START item SEP END`: the separator before END is accepted.
C19_Witness ==
    /\ comb = "delimited_collect" /\ seperator = <<SepTok>>
    /\ input = <<StartTok, "a", SepTok, EndTok>>
    /\ result = "Ok" /\ Len(retval[1]) = 1 /\ pos = 4

\* The stream begins with an identifier followed by `@`.
HasNameAt ==
    Len(stream) >= 2 /\ stream[1] = IdentTok /\ stream[2] = AtTok

\* C16: the `identifier @` prefix is tried speculatively.  If the stream
\* does not begin with both tokens, nothing is consumed, name and at are
\* absent and the call expression is parsed from the original position; if
\* it does, exactly those two tokens are consumed and name and at are both
\* present.  In every CallPattern, name is present iff at is.
C16_SpeculativeNameAt ==
    /\ step \in {"name_at", "done"} =>
          IF HasNameAt
          THEN name_at = <<[ident |-> [tok |-> IdentTok, at |-> 0],
                            at |-> [tok |-> AtTok, at |-> 1]]>>
          ELSE name_at = <<>>
    /\ step = "name_at" => cursor = IF HasNameAt THEN 2 ELSE 0
    /\ step = "done" =>
          /\ call_pattern[1].from = IF HasNameAt THEN 2 ELSE 0
          /\ call_pattern[1].name = <<>> <=> call_pattern[1].at = <<>>
          /\ call_pattern[1].name = <<>> <=> ~HasNameAt
          /\ call_pattern[1].ok <=>
                /\ Len(stream) >= call_pattern[1].from + 2
                /\ stream[call_pattern[1].from + 1] = IdentTok
                /\ stream[call_pattern[1].from + 2] = ParenTok
          /\ call_pattern[1].ok => call_pattern[1].expr[1].from = call_pattern[1].from

\* `n ()`: an identifier not followed by `@` is the call's path.
C16_Witness ==
    /\ step = "done" /\ stream = <<IdentTok, ParenTok>>
    /\ call_pattern[1].ok /\ call_pattern[1].name = <<>> /\ call_pattern[1].at = <<>>
    /\ call_pattern[1].expr = <<[from |-> 0, to |-> 2]>>

\* C20: with an item parser that consumes at least one token whenever it
\* succeeds, every combinator returns; each pass that does not return moves
\* the cursor forward, so there are never more calls of the item parser
\* than tokens consumed while the combinator runs.
C20_Termination ==
    /\ <>(result # "Pending")
    /\ [][result' = "Pending" => pos' > pos]_vars
    /\ [](result = "Pending" => Len(Calls) <= pos /\ pos <= Len(input))

\* try_collect ran over the whole input, one token per call.
C20_Witness ==
    /\ progress /\ comb = "try_collect" /\ result = "Ok"
    /\ Len(input) = MaxLen /\ Len(Calls) = MaxLen /\ pos = MaxLen

=============================================================================
